---- MODULE Spec2Model ----
(***************************************************************************)
(* A model of the tftprs TFTP server: the packet codec (lib/packet), the   *)
(* dispatcher and request handlers (lib/server/mod.rs) and the transfer    *)
(* loops.  The repository holds the transfer loops twice: as the private   *)
(* methods TftpServer::recieve_file / TftpServer::send_file of             *)
(* lib/server/mod.rs, which the handlers call, and as the free functions   *)
(* recieve_file / send_file / send_data_packet of lib/transfer.rs, which   *)
(* have the same signature.  The variable impl says which of the two a run *)
(* of the server uses.                                                     *)
(*                                                                         *)
(* Byte vectors (Vec<u8>, &[u8]) that carry file data are kept run-length  *)
(* encoded: a sequence of runs <<byte, count>>, count > 0, adjacent runs   *)
(* of different bytes.  Request datagrams are plain sequences of bytes.    *)
(***************************************************************************)
EXTENDS Integers, Sequences, FiniteSets, TLC

(***************************************************************************)
(* Bounds of the model.                                                    *)
(***************************************************************************)
\* largest retry budget (Config::send_retry_attempts) a run may be configured with
MaxRetry == 1
\* the transfer loops stop being explored once the block counter reaches this
MaxBlock == 3
\* datagrams the listening socket delivers in one run
MaxDatagrams == 2

\* a retry loop stops being explored once it has sent a packet this often
MaxTries == 257

\* pub const MAX_DATA_SIZE: usize = 512
MAX_DATA_SIZE == 512

(***************************************************************************)
(* Byte vectors, run-length encoded.                                       *)
(***************************************************************************)
RECURSIVE Norm(_)
Norm(r) ==
  IF Len(r) = 0 THEN <<>>
  ELSE IF r[1][2] = 0 THEN Norm(Tail(r))
  ELSE LET t == Norm(Tail(r)) IN
       IF Len(t) > 0 /\ t[1][1] = r[1][1]
       THEN <<(<<r[1][1], r[1][2] + t[1][2]>>)>> \o Tail(t)
       ELSE <<r[1]>> \o t

\* vec![b1, b2, ...]
Bytes(s) == Norm([i \in 1..Len(s) |-> <<s[i], 1>>])

\* vec![b; n]
Fill(b, n) == Norm(<<(<<b, n>>)>>)

RECURSIVE BLen(_)
BLen(r) == IF Len(r) = 0 THEN 0 ELSE r[1][2] + BLen(Tail(r))

\* r[i], 1-based
RECURSIVE BAt(_, _)
BAt(r, i) == IF i <= r[1][2] THEN r[1][1] ELSE BAt(Tail(r), i - r[1][2])

\* r[..n]
RECURSIVE BTake(_, _)
BTake(r, n) ==
  IF n <= 0 \/ Len(r) = 0 THEN <<>>
  ELSE IF n >= r[1][2] THEN Norm(<<r[1]>> \o BTake(Tail(r), n - r[1][2]))
  ELSE <<(<<r[1][1], n>>)>>

\* r[n..]
RECURSIVE BDrop(_, _)
BDrop(r, n) ==
  IF n <= 0 \/ Len(r) = 0 THEN r
  ELSE IF n >= r[1][2] THEN BDrop(Tail(r), n - r[1][2])
  ELSE <<(<<r[1][1], r[1][2] - n>>)>> \o Tail(r)

\* a.extend(b)
BCat(a, b) == Norm(a \o b)

None == [some |-> FALSE]

(***************************************************************************)
(* lib/packet/ack.rs, lib/packet/data.rs                                   *)
(***************************************************************************)
TftpAck(number) == [some |-> TRUE, number |-> number]

TftpData(number, data) == [some |-> TRUE, number |-> number, data |-> data]

\* (self.number >> 8) as u8 and self.number as u8 of a u16
High(number) == (number \div 256) % 256

Low(number) == number % 256

TftpAck_as_packet(ack) == Bytes(<<0, 4, High(ack.number), Low(ack.number)>>)

TftpAck_from_buffer(buf) ==
  IF BLen(buf) # 4 THEN None
  ELSE IF BAt(buf, 1) # 0 \/ BAt(buf, 2) # 4 THEN None
  ELSE TftpAck(BAt(buf, 3) * 256 + BAt(buf, 4))

TftpData_as_packet(d) ==
  BCat(Bytes(<<0, 3, High(d.number), Low(d.number)>>), d.data)

\* a decoder that takes the block number low byte first
TftpData_from_buffer_low_first(buf) ==
  IF BLen(buf) < 4 THEN None
  ELSE IF BAt(buf, 1) # 0 \/ BAt(buf, 2) # 3 THEN None
  ELSE TftpData(BAt(buf, 4) * 256 + BAt(buf, 3), BDrop(buf, 4))

TftpData_from_buffer(buf) ==
  IF BLen(buf) < 4 THEN None
  ELSE IF BAt(buf, 1) # 0 \/ BAt(buf, 2) # 3 THEN None
  ELSE TftpData(BAt(buf, 3) * 256 + BAt(buf, 4), BDrop(buf, 4))

(***************************************************************************)
(* lib/packet/error.rs, lib/codes.rs                                       *)
(***************************************************************************)
\* message: Option<String> is <<>> for None and <<text>> for Some(text)
TftpError(code, message) == [code |-> code, message |-> message]

translate_io_error(kind) ==
  CASE kind = "PermissionDenied" -> TftpError("AccessViolation", <<>>)
    [] kind = "AlreadyExists" -> TftpError("FileExists", <<>>)
    [] kind = "NotFound" -> TftpError("FileNotFound", <<>>)
    [] OTHER -> TftpError("Undefined", <<"An unknown IO error occurred">>)

\* the I/O failures the file system is taken to report
IoErrorKinds == {"PermissionDenied"}

(***************************************************************************)
(* lib/packet/mod.rs: get_packet_opcode on the listener's 1024-byte,       *)
(* zero-initialised PacketBuff holding a datagram of `length` bytes.       *)
(***************************************************************************)
PacketBuff(d, i) == IF i <= Len(d) THEN d[i] ELSE 0

\* an opcode test that does not look at the first byte
get_packet_opcode_second_byte(length, d) ==
  IF length < 2 THEN "Err"
  ELSE CASE PacketBuff(d, 2) = 1 -> "ReadRequest"
         [] PacketBuff(d, 2) = 2 -> "WriteRequest"
         [] PacketBuff(d, 2) = 3 -> "Data"
         [] PacketBuff(d, 2) = 4 -> "Acknowledgment"
         [] PacketBuff(d, 2) = 5 -> "Error"
         [] OTHER -> "Err"

get_packet_opcode(length, d) ==
  IF length < 2 \/ PacketBuff(d, 1) # 0 THEN "Err"
  ELSE CASE PacketBuff(d, 2) = 1 -> "ReadRequest"
         [] PacketBuff(d, 2) = 2 -> "WriteRequest"
         [] PacketBuff(d, 2) = 3 -> "Data"
         [] PacketBuff(d, 2) = 4 -> "Acknowledgment"
         [] PacketBuff(d, 2) = 5 -> "Error"
         [] OTHER -> "Err"

(***************************************************************************)
(* lib/server/mod.rs: parse_rw_request                                     *)
(***************************************************************************)
\* the position of the first NUL of s, 0 if there is none
RECURSIVE FirstNul(_, _)
FirstNul(s, i) ==
  IF i > Len(s) THEN 0 ELSE IF s[i] = 0 THEN i ELSE FirstNul(s, i + 1)

\* packet.splitn(3, |x| *x == 0): at most three pieces, the last unsplit
splitn3(s) ==
  LET i == FirstNul(s, 1) IN
  IF i = 0 THEN <<s>>
  ELSE LET rest == SubSeq(s, i + 1, Len(s))
           j == FirstNul(rest, 1)
       IN IF j = 0 THEN <<SubSeq(s, 1, i - 1), rest>>
          ELSE <<SubSeq(s, 1, i - 1), SubSeq(rest, 1, j - 1),
                 SubSeq(rest, j + 1, Len(rest))>>

\* str::from_utf8(..).is_ok(), for byte strings that hold no well-formed
\* multi-byte sequence: such a string is UTF-8 exactly when it is ASCII
from_utf8_ok(s) == \A i \in 1..Len(s) : s[i] < 128

\* str::to_lowercase on ASCII text
to_lowercase(s) ==
  [i \in 1..Len(s) |-> IF s[i] >= 65 /\ s[i] <= 90 THEN s[i] + 32 ELSE s[i]]

StrNetascii == <<110, 101, 116, 97, 115, 99, 105, 105>>

StrOctet == <<111, 99, 116, 101, 116>>

StrEmail == <<101, 109, 97, 105, 108>>

\* [tag |-> "panic"] when an unwrap() of from_utf8 fails
parse_rw_request(d, length) ==
  LET parts == splitn3(SubSeq(d, 3, length)) IN
  IF ~from_utf8_ok(parts[1]) THEN [tag |-> "panic"]
  ELSE IF Len(parts) < 2
  THEN [tag |-> "err", err |-> TftpError("Undefined", <<"Invalid mode string">>)]
  ELSE IF ~from_utf8_ok(parts[2]) THEN [tag |-> "panic"]
  ELSE LET mode == to_lowercase(parts[2]) IN
       CASE mode = StrNetascii ->
              [tag |-> "ok", filename |-> parts[1], mode |-> "NetAscii"]
         [] mode = StrOctet ->
              [tag |-> "ok", filename |-> parts[1], mode |-> "Octet"]
         [] mode = StrEmail ->
              [tag |-> "err",
               err |-> TftpError("Undefined",
                                 <<"Email transfer mode is not supported">>)]
         [] OTHER ->
              [tag |-> "err",
               err |-> TftpError("Undefined", <<"Unknown transfer mode">>)]

(***************************************************************************)
(* lib/packet/error.rs: the ERROR packet on the wire.  A message that is   *)
(* encoded is a String given by its bytes.                                 *)
(***************************************************************************)
\* enum ErrorCode: the code byte of ErrorCodes[i] is i - 1
ErrorCodes ==
  <<"Undefined", "FileNotFound", "AccessViolation", "DiskFull",
    "IllegalOperation", "UnknownTransferID", "FileExists", "NoSuchUser">>

CodeByte(code) == CHOOSE i \in 0..7 : ErrorCodes[i + 1] = code

\* the text as_packet writes when message is None
DefaultMessage(code) ==
  CASE code = "Undefined" -> <<85, 110, 100, 101, 102, 105, 110, 101, 100>>  \* "Undefined"
    [] code = "FileNotFound" -> <<70, 105, 108, 101, 32, 110, 111, 116, 32, 102, 111, 117, 110, 100>>  \* "File not found"
    [] code = "AccessViolation" -> <<65, 99, 99, 101, 115, 115, 32, 118, 105, 111, 108, 97, 116, 105, 111, 110>>  \* "Access violation"
    [] code = "DiskFull" -> <<68, 105, 115, 107, 32, 102, 117, 108, 108>>  \* "Disk full"
    [] code = "IllegalOperation" -> <<73, 108, 108, 101, 103, 97, 108, 32, 111, 112, 101, 114, 97, 116, 105, 111, 110>>  \* "Illegal operation"
    [] code = "UnknownTransferID" -> <<85, 110, 107, 110, 111, 119, 110, 32, 116, 114, 97, 110, 115, 102, 101, 114, 32, 105, 100>>  \* "Unknown transfer id"
    [] code = "FileExists" -> <<70, 105, 108, 101, 32, 101, 120, 105, 115, 116, 115>>  \* "File exists"
    [] code = "NoSuchUser" -> <<78, 111, 32, 115, 117, 99, 104, 32, 117, 115, 101, 114>>  \* "No such user"

\* Some(e) of Option<TftpError>
SomeError(e) == [some |-> TRUE, value |-> e]

\* the bytes of a run-length encoded vector, one by one
BSeq(r) == [i \in 1..BLen(r) |-> BAt(r, i)]

TftpError_as_packet(e) ==
  LET message == IF e.message = <<>> THEN DefaultMessage(e.code)
                 ELSE e.message[1]
  IN Bytes(<<0, 5, 0, CodeByte(e.code)>> \o message \o <<0>>)

\* a decoder that keeps the last byte of the buffer in the message
TftpError_from_buffer_keeps_last(buf) ==
  IF BLen(buf) <= 4 THEN None
  ELSE IF BAt(buf, 1) # 0 \/ BAt(buf, 2) # 5 THEN None
  ELSE IF BAt(buf, 3) # 0 THEN None
  ELSE IF BAt(buf, 4) > 7 THEN None
  ELSE LET msg_buffer == BSeq(BDrop(buf, 4)) IN
       IF ~from_utf8_ok(msg_buffer) THEN None
       ELSE SomeError(TftpError(ErrorCodes[BAt(buf, 4) + 1], <<msg_buffer>>))

\* a decoder that takes buffers of 4 bytes too
TftpError_from_buffer_four_bytes(buf) ==
  IF BLen(buf) < 4 THEN None
  ELSE IF BAt(buf, 1) # 0 \/ BAt(buf, 2) # 5 THEN None
  ELSE IF BAt(buf, 3) # 0 THEN None
  ELSE IF BAt(buf, 4) > 7 THEN None
  ELSE LET msg_buffer == BSeq(BTake(BDrop(buf, 4), BLen(buf) - 5)) IN
       IF ~from_utf8_ok(msg_buffer) THEN None
       ELSE SomeError(TftpError(ErrorCodes[BAt(buf, 4) + 1], <<msg_buffer>>))

\* msg_buffer is buf[4..buf.len()-1]: the last byte is dropped unexamined
TftpError_from_buffer(buf) ==
  IF BLen(buf) <= 4 THEN None
  ELSE IF BAt(buf, 1) # 0 \/ BAt(buf, 2) # 5 THEN None
  ELSE IF BAt(buf, 3) # 0 THEN None
  ELSE IF BAt(buf, 4) > 7 THEN None
  ELSE LET msg_buffer == BSeq(BTake(BDrop(buf, 4), BLen(buf) - 5)) IN
       IF ~from_utf8_ok(msg_buffer) THEN None
       ELSE SomeError(TftpError(ErrorCodes[BAt(buf, 4) + 1], <<msg_buffer>>))

(***************************************************************************)
(* State.                                                                  *)
(***************************************************************************)
VARIABLES
  impl,       \* "server": the handlers call TftpServer::recieve_file/send_file
              \* "transfer": they call transfer::recieve_file/send_file
  config,     \* Config: send_retry_attempts (u8), read_timeout
  listener,   \* TftpServer::start: "running", or "panicked"
  handled,    \* datagrams the listening socket has delivered so far
  started,    \* sessions handle_request has spawned
  requests,   \* datagrams delivered that were read or write requests
  lsent,      \* packets sent from the listening socket
  clientLen,  \* length of the file the peer of a write request uploads
  fs,         \* the files under config.root
  sess,       \* the session threads
  cstage, cnum, cdata, cbuf, cack, cdat,  \* the codec on its own (CodecSpec)
  cerr, cerrd

vars == <<impl, config, listener, handled, started, requests, lsent,
          clientLen, fs, sess, cstage, cnum, cdata, cbuf, cack, cdat,
          cerr, cerrd>>

codecVars == <<cstage, cnum, cdata, cbuf, cack, cdat, cerr, cerrd>>

serverVars == <<impl, config, listener, handled, started, requests, lsent,
                clientLen, fs, sess>>

Sessions == 1..MaxDatagrams

\* the one file name requests ask for: "a"
FileA == <<97>>

Paths == {FileA}

NoFile == [exists |-> FALSE, data |-> <<>>]

File(data) == [exists |-> TRUE, data |-> data]

\* length of the runs of equal bytes test contents are made of
RunLen == 300

\* L bytes: RunLen bytes base+1, RunLen bytes base+2, ...
Content(base, L) ==
  Norm([j \in 1..((L + RunLen - 1) \div RunLen) |->
          <<base + j, IF j * RunLen <= L THEN RunLen ELSE L - (j - 1) * RunLen>>])

\* lengths of the files read requests are served from
FileLens == {0, 512, 1000}

\* lengths of the files write requests upload
ClientLens == {0, 612, 1024}

NBlocks(L) == L \div MAX_DATA_SIZE + 1

\* the file of L bytes the peer of session s uploads, its DATA block j and
\* the datagram that carries it
ClientContent == [s \in Sessions, L \in ClientLens |-> Content(10 * s, L)]

ClientBlock ==
  [s \in Sessions, L \in ClientLens, j \in 1..(MaxBlock + 1) |->
     TftpData(j, BTake(BDrop(ClientContent[s, L], MAX_DATA_SIZE * (j - 1)),
                       MAX_DATA_SIZE))]

ClientPacket ==
  [s \in Sessions, L \in ClientLens, j \in 1..(MaxBlock + 1) |->
     TftpData_as_packet(ClientBlock[s, L, j])]

\* a file too long to list run by run, of one byte all through; the peer that
\* uploads one numbers the blocks modulo 65536
LongContent(L) == Fill(7, L)

\* the blocks the peer of session s may send: all of a short upload; of a long
\* one the block the session has written last and the one after it
PeerBlocks(s) ==
  IF clientLen \in ClientLens THEN 1..NBlocks(clientLen)
  ELSE { j \in {sess[s].pos \div MAX_DATA_SIZE, sess[s].pos \div MAX_DATA_SIZE + 1} :
           j \in 1..NBlocks(clientLen) }

PeerPacket(s, j) ==
  IF clientLen \in ClientLens THEN ClientPacket[s, clientLen, j]
  ELSE TftpData_as_packet(
         TftpData(j % 65536,
                  BTake(BDrop(LongContent(clientLen), MAX_DATA_SIZE * (j - 1)),
                        MAX_DATA_SIZE)))

NoResult == [tag |-> "none"]

Ok == [tag |-> "ok"]

Err(e) == [tag |-> "err", err |-> e]

FreeSession ==
  [pc |-> "free", kind |-> "none", addr |-> "A", packet |-> <<>>,
   \* packet: the request, until it is parsed
   path |-> <<>>, number |-> 0, attempts |-> 0, pos |-> 0, data |-> <<>>,
   previous_bytes_sent |-> 0,
   result |-> NoResult,
   \* history, kept for the properties:
   tries |-> 0,        \* sends of Ack{number} / Data{number} for the current block
   acked |-> {},       \* block numbers of the ACKs sent
   wrote |-> <<>>,     \* block numbers of the DATA payloads written, in order
   sentData |-> <<>>,  \* <<number, payload length>> of each DATA block, at its first send
   errs |-> <<>>,      \* ERROR packets sent to the peer
   lastSent |-> <<>>,  \* packets the last step of the session sent
   recvd |-> FALSE,    \* recv_from was called on the session socket
   opened |-> FALSE,   \* a File was created or opened
   hooks |-> <<>>,     \* callbacks invoked
   clean |-> TRUE,     \* so far no call failed and every reply was the expected one
   exhausted |-> FALSE] \* a retry loop ended without the expected reply

(***************************************************************************)
(* What the network may hand to recv_from.                                 *)
(***************************************************************************)
Timeout == [tag |-> "timeout"]

Dgram(addr, data) == [tag |-> "dgram", addr |-> addr, data |-> data]

RwRequest(op, name, mode) == <<0, op>> \o name \o <<0>> \o mode \o <<0>>

\* datagrams sent to the listening socket
ListenerInputs ==
  { RwRequest(1, FileA, StrOctet),
    RwRequest(2, FileA, StrOctet),
    RwRequest(2, FileA, StrEmail),
    RwRequest(1, FileA, <<78, 101, 116, 65, 115, 99, 105, 105>>),  \* "NetAscii"
    RwRequest(2, FileA, <<102, 111, 111>>),                        \* "foo"
    <<0, 1>> \o FileA,
    <<0, 1>>,
    <<0, 2, 255, 0>> \o StrOctet \o <<0>>,
    <<0, 1>> \o FileA \o <<0, 255, 0>>,
    <<>>, <<0>>, <<1, 1>> \o FileA \o <<0>> \o StrOctet \o <<0>>,
    <<0, 9, 0, 0>>, <<0, 3, 0, 1, 7>>, <<0, 4, 0, 0>>, <<0, 5, 0, 0, 0>> }

\* a receive session's socket: timeouts; the peer's DATA blocks, lost, repeated
\* and in any order; a datagram of the peer that is no DATA; datagrams of B
recieve_inputs(s) ==
  (IF config.read_timeout = "Some" THEN {Timeout} ELSE {})
  \cup { Dgram("A", PeerPacket(s, j)) : j \in PeerBlocks(s) }
  \cup { Dgram("A", TftpAck_as_packet(TftpAck(0))) }
  \cup { Dgram("B", TftpData_as_packet(TftpData((sess[s].number + 1) % 65536, Fill(99, 5)))),
         Dgram("B", Bytes(<<0, 5, 0, 0, 0>>)) }

\* a send session's socket: timeouts; the peer's ACK of the block, of the block
\* before, an ACK with a byte too many, a datagram that is no ACK; datagrams of B
send_inputs(s) ==
  (IF config.read_timeout = "Some" THEN {Timeout} ELSE {})
  \cup { Dgram("A", TftpAck_as_packet(TftpAck(sess[s].number))),
         Dgram("A", TftpAck_as_packet(TftpAck((sess[s].number + 65535) % 65536))),
         Dgram("A", BCat(TftpAck_as_packet(TftpAck(sess[s].number)), Bytes(<<9>>))),
         Dgram("A", Bytes(<<0, 3, 0, 1>>)) }
  \cup { Dgram("B", TftpAck_as_packet(TftpAck(sess[s].number))),
         Dgram("B", Bytes(<<0, 3, 0, 1>>)) }

\* socket.recv_from(&mut buf): the datagram cut to the buffer's size
recv_from(size, in) == BTake(in.data, size)

(***************************************************************************)
(* Init.                                                                   *)
(***************************************************************************)
CodecOff ==
  /\ cstage = "off" /\ cnum = 0 /\ cdata = <<>> /\ cbuf = <<>>
  /\ cack = None /\ cdat = None
  /\ cerr = TftpError("Undefined", <<>>) /\ cerrd = None

\* TftpServer::new: 5 retries, a read timeout of 20 ms
TftpServer_new == [send_retry_attempts |-> 5, read_timeout |-> "Some"]

\* set_read_timeout stores the Duration it is given; "Zero" is Some(0)
set_read_timeout(cfg, dur) == [cfg EXCEPT !.read_timeout = dur]

set_send_retry_attempts(cfg, attempts) ==
  [cfg EXCEPT !.send_retry_attempts = attempts]

\* the server as bin/tftpd.rs sets it up before start()
Init ==
  /\ impl \in {"server", "transfer"}
  /\ config \in { set_read_timeout(set_send_retry_attempts(TftpServer_new, k), dur) :
                    k \in 0..MaxRetry, dur \in {"Some", "Zero"} }
  /\ listener = "running"
  /\ handled = 0 /\ started = 0 /\ requests = 0 /\ lsent = 0
  \* the uploaded file matters only where a write request can be accepted
  /\ \/ /\ fs = [p \in Paths |-> NoFile]
        /\ clientLen \in ClientLens
     \/ /\ fs \in [Paths -> {File(Content(0, L)) : L \in FileLens}]
        /\ clientLen = 0
  /\ sess = [s \in Sessions |-> FreeSession]
  /\ CodecOff

(***************************************************************************)
(* lib/server/mod.rs: the dispatcher.                                      *)
(***************************************************************************)
Set(s, c) == sess' = [sess EXCEPT ![s] = c]

Panicked(c) ==
  [c EXCEPT !.pc = "panicked", !.packet = <<>>, !.lastSent = <<>>, !.clean = FALSE]

IsRequest(d) == Len(d) >= 2 /\ d[1] = 0 /\ d[2] \in {1, 2}

\* handle_request: spawn a session thread for a read or write request
handle_request(d, length) ==
  LET code == get_packet_opcode(length, d) IN
  IF code \in {"ReadRequest", "WriteRequest"}
  THEN /\ started < MaxDatagrams
       /\ started' = started + 1
       /\ Set(started + 1,
              [FreeSession EXCEPT !.pc = "start",
                 !.kind = IF code = "ReadRequest" THEN "rrq" ELSE "wrq",
                 !.packet = SubSeq(d, 1, length)])
  ELSE UNCHANGED <<started, sess>>

\* TftpServer::start, one pass of the loop: recv_from(..).unwrap(), handle_request
start(d) ==
  /\ listener = "running"
  /\ handled < MaxDatagrams
  /\ handled' = handled + 1
  /\ requests' = requests + (IF IsRequest(d) THEN 1 ELSE 0)
  /\ handle_request(d, Len(d))
  /\ UNCHANGED <<impl, config, listener, lsent, clientLen, fs, codecVars>>

\* TftpServer::start when recv_from on the listening socket returns Err:
\* the unwrap() panics in the thread that runs the accept loop
start_recv_err ==
  /\ listener = "running"
  /\ handled < MaxDatagrams
  /\ listener' = "panicked"
  /\ UNCHANGED <<impl, config, handled, started, requests, lsent, clientLen,
                 fs, sess, codecVars>>

(***************************************************************************)
(* lib/server/mod.rs: handle_write_request / handle_read_request, the      *)
(* closure run by the session thread.                                      *)
(***************************************************************************)
Exists(path) == path \in Paths /\ fs[path].exists

SessionFrame == UNCHANGED <<impl, config, listener, handled, started, requests,
                            lsent, clientLen, codecVars>>

\* bind the session socket, set its read timeout, parse the request
handle_request_setup(s, bindOk) ==
  LET c == sess[s]
      r == parse_rw_request(c.packet, Len(c.packet))
  IN /\ c.pc = "start"
     /\ IF ~bindOk \/ config.read_timeout = "Zero" \/ r.tag = "panic"
        THEN Set(s, Panicked(c))
        ELSE IF r.tag = "err"
        THEN Set(s, [c EXCEPT !.pc = "done", !.packet = <<>>,
                       !.errs = Append(@, r.err),
                       !.lastSent = <<(<<"error", c.addr, r.err>>)>>])
        ELSE Set(s, [c EXCEPT !.pc = IF c.kind = "wrq" THEN "exists" ELSE "open",
                       !.packet = <<>>, !.path = r.filename, !.lastSent = <<>>])
     /\ UNCHANGED fs
     /\ SessionFrame

\* a handler that removes the file of a write request whose transfer failed
handle_request_err_removes(s, sendOk) ==
  LET c == sess[s] IN
  /\ c.pc = "failed"
  /\ c.kind = "rrq" => sendOk
  /\ IF c.kind = "wrq" /\ ~sendOk
     THEN Set(s, Panicked(c))
     ELSE Set(s, [c EXCEPT !.pc = "done",
                    !.errs = Append(@, c.result.err),
                    !.lastSent = <<(<<"error", c.addr, c.result.err>>)>>])
  /\ IF c.kind = "wrq" /\ c.opened
     THEN fs' = [fs EXCEPT ![c.path] = NoFile]
     ELSE UNCHANGED fs
  /\ SessionFrame

\* a handler that calls the completed callback on the error path as well
handle_request_err_completed(s, sendOk) ==
  LET c == sess[s] IN
  /\ c.pc = "failed"
  /\ c.kind = "rrq" => sendOk
  /\ IF c.kind = "wrq" /\ ~sendOk
     THEN Set(s, Panicked(c))
     ELSE Set(s, [c EXCEPT !.pc = "done",
                    !.errs = Append(@, c.result.err),
                    !.lastSent = <<(<<"error", c.addr, c.result.err>>)>>,
                    !.hooks = Append(@, IF c.kind = "wrq" THEN "write_completed"
                                        ELSE "read_completed")])
  /\ UNCHANGED fs
  /\ SessionFrame

\* the transfer function returned Err(err): the courtesy ERROR packet.
\* handle_write_request unwraps the send, handle_read_request ignores its result
handle_request_err(s, sendOk) ==
  LET c == sess[s] IN
  /\ c.pc = "failed"
  /\ c.kind = "rrq" => sendOk
  /\ IF c.kind = "wrq" /\ ~sendOk
     THEN Set(s, Panicked(c))
     ELSE Set(s, [c EXCEPT !.pc = "done",
                    !.errs = Append(@, c.result.err),
                    !.lastSent = <<(<<"error", c.addr, c.result.err>>)>>])
  /\ UNCHANGED fs
  /\ SessionFrame

\* the transfer function returned Ok(file): the completed callback
handle_request_ok(s) ==
  LET c == sess[s] IN
  /\ c.pc = "returned"
  /\ Set(s, [c EXCEPT !.pc = "done", !.lastSent = <<>>,
               !.hooks = Append(@, IF c.kind = "wrq" THEN "write_completed"
                                   ELSE "read_completed")])
  /\ UNCHANGED fs
  /\ SessionFrame

(***************************************************************************)
(* Receiving a file (a write request).                                     *)
(***************************************************************************)
U16(x) == x % 65536

\* attempts has the type of Config::send_retry_attempts, u8
U8(x) == x % 256

\* the part of the u16 block counter the transfer loops are explored in: its
\* first values, and its last ones up to the wrap to 0
InBlocks(number) == number < MaxBlock \/ number >= 65536 - MaxBlock

UnknownTransferID(to) == <<"error", to, TftpError("UnknownTransferID", <<>>)>>

Exceeded == TftpError("Undefined", <<"Exceeded max send attempts">>)

\* file.write_all(data) at the handle's position; a gap is filled with zeros
WriteAt(content, pos, data) ==
  LET pre == IF BLen(content) >= pos THEN BTake(content, pos)
             ELSE BCat(content, Fill(0, pos - BLen(content)))
  IN BCat(BCat(pre, data), BDrop(content, pos + BLen(data)))

\* a receive function that goes on to File::create without the test of the path
recieve_file_no_exists_test(s) ==
  LET c == sess[s] IN
  /\ c.pc = "exists"
  /\ Set(s, [c EXCEPT !.pc = "create", !.lastSent = <<>>])
  /\ UNCHANGED fs
  /\ SessionFrame

\* recieve_file up to its loop: path.exists()
recieve_file_exists(s) ==
  LET c == sess[s] IN
  /\ c.pc = "exists"
  /\ IF Exists(c.path)
     THEN Set(s, [c EXCEPT !.pc = "failed", !.lastSent = <<>>,
                    !.result = Err(TftpError("FileExists", <<>>))])
     ELSE Set(s, [c EXCEPT !.pc = "create", !.lastSent = <<>>])
  /\ UNCHANGED fs
  /\ SessionFrame

\* a create that fails when the path exists by now (OpenOptions::create_new)
recieve_file_create_new(s, r) ==
  LET c == sess[s] IN
  /\ c.pc = "create"
  /\ c.path \in Paths
  /\ IF r = "ok" /\ ~Exists(c.path)
     THEN /\ fs' = [fs EXCEPT ![c.path] = File(<<>>)]
          /\ Set(s, [c EXCEPT !.pc = "recv", !.number = 0, !.attempts = 0,
                       !.pos = 0, !.opened = TRUE, !.lastSent = <<>>,
                       !.hooks = Append(@, "write_started")])
     ELSE /\ UNCHANGED fs
          /\ Set(s, [c EXCEPT !.pc = "failed", !.lastSent = <<>>,
                       !.clean = FALSE,
                       !.result = IF r = "ok" THEN Err(TftpError("FileExists", <<>>))
                                  ELSE Err(translate_io_error(r))])
  /\ SessionFrame

\* File::create(path), which empties a file that exists, and the started callback
recieve_file_create(s, r) ==
  LET c == sess[s] IN
  /\ c.pc = "create"
  /\ c.path \in Paths
  /\ IF r = "ok"
     THEN /\ fs' = [fs EXCEPT ![c.path] = File(<<>>)]
          /\ Set(s, [c EXCEPT !.pc = "recv", !.number = 0, !.attempts = 0,
                       !.pos = 0, !.opened = TRUE, !.lastSent = <<>>,
                       !.hooks = Append(@, "write_started")])
     ELSE /\ UNCHANGED fs
          /\ Set(s, [c EXCEPT !.pc = "failed", !.lastSent = <<>>,
                       !.clean = FALSE,
                       !.result = Err(translate_io_error(r))])
  /\ SessionFrame

\* socket.send_to(&ack.as_packet(), addr).unwrap() fails at the head of a pass
recieve_file_send_err(s) ==
  LET c == sess[s] IN
  /\ c.pc = "recv"
  /\ InBlocks(c.number)
  /\ impl = "server" => config.send_retry_attempts > 0
  /\ Set(s, Panicked(c))
  /\ UNCHANGED fs
  /\ SessionFrame

\* Ack{number} sent and recv_from called; it returns `in`, and f is the call
\* that fails later in the pass
recieve_sent_and_received(c, in, f) ==
  [c EXCEPT !.acked = @ \cup {c.number}, !.tries = @ + 1,
     !.attempts = U8(@ + 1), !.recvd = TRUE,
     !.lastSent = <<(<<"ack", c.addr, c.number>>)>>,
     !.clean = @ /\ f = "none" /\ in.tag = "dgram" /\ in.addr = c.addr
               /\ TftpData_from_buffer(in.data).some
               /\ TftpData_from_buffer(in.data).number = U16(c.number + 1)]

\* the for loop moves on to the next block
next_block(c) ==
  [c EXCEPT !.number = U16(@ + 1), !.attempts = 0, !.tries = 0]

\* transfer.rs: the while condition after a pass ended in `continue` or
\* `break`, and the check after the loop
recieve_file_loop_end(c, brk) ==
  IF ~brk /\ c.attempts <= config.send_retry_attempts THEN c
  ELSE IF c.attempts > config.send_retry_attempts
  THEN [c EXCEPT !.pc = "failed", !.result = Err(Exceeded),
          !.exhausted = ~brk]
  ELSE next_block(c)

\* transfer.rs recieve_file: one pass of `while attempts <= send_retry_attempts`.
\* f: "write" when write_all fails, "send" when the send of the last ACK fails
recieve_file(s, in, f) ==
  LET c == sess[s]
      d == recieve_sent_and_received(c, in, f)
      data == TftpData_from_buffer(recv_from(MAX_DATA_SIZE + 2 + 2, in))
      expected == in.tag = "dgram" /\ in.addr = c.addr /\ data.some
                  /\ data.number = U16(c.number + 1)
      last == expected /\ BLen(data.data) < MAX_DATA_SIZE
      written == [d EXCEPT !.wrote = Append(@, data.number),
                    !.pos = @ + BLen(data.data)]
  IN /\ impl = "transfer"
     /\ c.pc = "recv"
     /\ InBlocks(c.number)
     /\ in \in recieve_inputs(s)
     /\ f \in {"none", "write", "send"}
     /\ f = "write" => expected
     /\ f = "send" => last
     /\ IF in.tag = "timeout" THEN
          /\ Set(s, recieve_file_loop_end(d, FALSE))
          /\ UNCHANGED fs
        ELSE IF in.addr # c.addr THEN
          /\ Set(s, recieve_file_loop_end(
                      [d EXCEPT !.lastSent = Append(@, UnknownTransferID(in.addr))],
                      FALSE))
          /\ UNCHANGED fs
        ELSE IF ~expected THEN
          /\ Set(s, recieve_file_loop_end(d, FALSE))
          /\ UNCHANGED fs
        ELSE IF f = "write" THEN
          /\ Set(s, [d EXCEPT !.pc = "failed",
                       !.result = Err(TftpError("Undefined", <<>>))])
          /\ UNCHANGED fs
        ELSE
          /\ fs' = [fs EXCEPT ![c.path] =
                      File(WriteAt(@.data, c.pos, data.data))]
          /\ IF ~last THEN Set(s, recieve_file_loop_end(written, TRUE))
             ELSE IF f = "send" THEN Set(s, Panicked(written))
             ELSE Set(s, [written EXCEPT !.pc = "returned", !.result = Ok,
                            !.acked = @ \cup {data.number},
                            !.lastSent = Append(@, <<"ack", c.addr, data.number>>)])
     /\ SessionFrame

\* mod.rs: the end of a pass of `for _ in 0..send_retry_attempts`; when the
\* passes are used up the outer loop goes on with the next block
TftpServer_recieve_file_loop_end(c, brk) ==
  IF ~brk /\ c.attempts < config.send_retry_attempts THEN c
  ELSE [next_block(c) EXCEPT !.exhausted = @ \/ ~brk]

\* mod.rs TftpServer::recieve_file: one pass of `for _ in 0..send_retry_attempts`.
\* f: "write" when file.write fails (its result is dropped), "send" when the
\* send of the last ACK fails
TftpServer_recieve_file(s, in, f) ==
  LET c == sess[s]
      d0 == recieve_sent_and_received(c, in, f)
      d == IF in.tag = "dgram" /\ in.addr # c.addr
           THEN [d0 EXCEPT !.lastSent = Append(@, UnknownTransferID(in.addr))]
           ELSE d0
      data == TftpData_from_buffer(recv_from(MAX_DATA_SIZE + 2 + 2, in))
      expected == in.tag = "dgram" /\ data.some
                  /\ data.number = U16(c.number + 1)
      last == expected /\ BLen(data.data) < MAX_DATA_SIZE
      written == IF f = "write" THEN d
                 ELSE [d EXCEPT !.wrote = Append(@, data.number),
                         !.pos = @ + BLen(data.data)]
  IN /\ impl = "server"
     /\ c.pc = "recv"
     /\ InBlocks(c.number)
     /\ config.send_retry_attempts > 0
     /\ in \in recieve_inputs(s)
     /\ f \in {"none", "write", "send"}
     /\ f = "write" => expected
     /\ f = "send" => last
     /\ IF ~expected THEN
          /\ Set(s, TftpServer_recieve_file_loop_end(d, FALSE))
          /\ UNCHANGED fs
        ELSE
          /\ fs' = IF f = "write" THEN fs
                   ELSE [fs EXCEPT ![c.path] =
                           File(WriteAt(@.data, c.pos, data.data))]
          /\ IF ~last THEN Set(s, TftpServer_recieve_file_loop_end(written, TRUE))
             ELSE IF f = "send" THEN Set(s, Panicked(written))
             ELSE Set(s, [written EXCEPT !.pc = "returned", !.result = Ok,
                            !.acked = @ \cup {data.number},
                            !.lastSent = Append(@, <<"ack", c.addr, data.number>>)])
     /\ SessionFrame

\* mod.rs TftpServer::recieve_file with send_retry_attempts = 0: the inner loop
\* has no pass, so `for number in 0..` runs on without sending or receiving;
\* a build with overflow checks panics at the end of u16, one without spins
TftpServer_recieve_file_spin(s, end) ==
  LET c == sess[s] IN
  /\ impl = "server"
  /\ c.pc = "recv"
  /\ config.send_retry_attempts = 0
  /\ end \in {"panicked", "spin"}
  /\ Set(s, [c EXCEPT !.pc = end, !.lastSent = <<>>])
  /\ UNCHANGED fs
  /\ SessionFrame

(***************************************************************************)
(* Sending a file (a read request).                                        *)
(***************************************************************************)
\* send_file up to its loop: path.exists(), File::open(path), the started callback
send_file_open(s, r) ==
  LET c == sess[s] IN
  /\ c.pc = "open"
  /\ ~Exists(c.path) => r = "ok"
  /\ IF ~Exists(c.path)
     THEN Set(s, [c EXCEPT !.pc = "failed", !.lastSent = <<>>,
                    !.result = Err(TftpError("FileNotFound", <<>>))])
     ELSE IF r # "ok"
     THEN Set(s, [c EXCEPT !.pc = "failed", !.lastSent = <<>>,
                    !.clean = FALSE,
                    !.result = Err(translate_io_error(r))])
     ELSE Set(s, [c EXCEPT !.pc = "read", !.number = 1, !.attempts = 0,
                    !.pos = 0, !.previous_bytes_sent = 0, !.opened = TRUE,
                    !.data = Fill(0, MAX_DATA_SIZE), !.lastSent = <<>>,
                    !.hooks = Append(@, "read_started")])
  /\ UNCHANGED fs
  /\ SessionFrame

\* file.read(&mut buf) for a buffer of `size` bytes: the bytes read
file_read(c, size) ==
  BTake(BDrop(fs[c.path].data, c.pos), size)

\* data_packet after file.read has put `bytes` into the vector `buf` and the
\* vector was truncated
read_into(buf, bytes) ==
  LET file_bytes == BLen(bytes)
      filled == BCat(bytes, BDrop(buf, file_bytes))
  IN [file_bytes |-> file_bytes,
      data |-> IF file_bytes < MAX_DATA_SIZE THEN BTake(filled, file_bytes)
               ELSE filled]

\* the top of a pass of `for number in 1..`: data_packet after file.read and
\* truncate, where `buf` is the vector read into
read_block(c, buf) == read_into(buf, file_read(c, BLen(buf)))

\* the same when file.read returns n bytes, fewer than the file has left for
\* the vector (the FIXME of send_file)
read_block_short(c, buf, n) == read_into(buf, BTake(file_read(c, BLen(buf)), n))

\* the end-of-file test, and what follows it when the transfer goes on
after_read(c, b) ==
  IF b.file_bytes = 0 /\ c.number > 1 /\ c.previous_bytes_sent < MAX_DATA_SIZE
  THEN [c EXCEPT !.pc = "returned", !.result = Ok, !.data = b.data,
          !.pos = @ + b.file_bytes, !.lastSent = <<>>]
  ELSE [c EXCEPT !.pc = "send", !.data = b.data, !.attempts = 0, !.tries = 0,
          !.pos = @ + b.file_bytes,
          !.previous_bytes_sent = b.file_bytes, !.lastSent = <<>>]

\* transfer.rs send_file: one pass of `for number in 1..` down to the call of
\* send_data_packet; data_packet.data is the one vector made before the loop
send_file(s, r) ==
  LET c == sess[s] IN
  /\ impl = "transfer"
  /\ c.pc = "read"
  /\ r \in {"ok"} \cup IoErrorKinds
  /\ IF r # "ok"
     THEN Set(s, [c EXCEPT !.pc = "failed", !.lastSent = <<>>,
                    !.clean = FALSE,
                    !.result = Err(translate_io_error(r))])
     ELSE Set(s, after_read(c, read_block(c, c.data)))
  /\ UNCHANGED fs
  /\ SessionFrame

\* DATA{number} sent and recv_from called; it returns `in`
send_sent_and_received(c, in) ==
  LET pkt == <<"data", c.addr, c.number, BLen(c.data)>> IN
  [c EXCEPT !.tries = @ + 1, !.attempts = U8(@ + 1), !.recvd = TRUE,
     !.lastSent = <<pkt>>,
     !.clean = @ /\ in = Dgram(c.addr, TftpAck_as_packet(TftpAck(c.number))),
     !.sentData = IF c.tries = 0 THEN Append(@, <<c.number, BLen(c.data)>>) ELSE @]

\* send_to(..).unwrap() of the DATA packet fails, or recv_from(..).unwrap()
\* times out: the session thread panics
send_data_packet_panic(s, sent) ==
  LET c == sess[s] IN
  /\ c.pc = "send"
  /\ impl = "server" => config.send_retry_attempts > 0
  /\ sent \in BOOLEAN
  /\ sent => config.read_timeout = "Some"
  /\ Set(s, [c EXCEPT !.pc = "panicked", !.clean = FALSE,
               !.tries = IF sent THEN @ + 1 ELSE @,
               !.recvd = @ \/ sent,
               !.sentData = IF sent /\ c.tries = 0
                            THEN Append(@, <<c.number, BLen(c.data)>>) ELSE @,
               !.lastSent = IF sent
                            THEN <<(<<"data", c.addr, c.number, BLen(c.data)>>)>>
                            ELSE <<>>])
  /\ UNCHANGED fs
  /\ SessionFrame

\* the reply is the expected ACK: the test of the pass
send_acked(c, in) ==
  LET ack == TftpAck_from_buffer(recv_from(4, in)) IN
  ack.some /\ in.addr = c.addr /\ ack = TftpAck(c.number)

\* the reply of a foreign address, answered after it decoded as an ACK
send_foreign(c, d, in) ==
  LET ack == TftpAck_from_buffer(recv_from(4, in)) IN
  IF ack.some /\ in.addr # c.addr
  THEN [d EXCEPT !.lastSent = Append(@, UnknownTransferID(in.addr))]
  ELSE d

\* transfer.rs send_data_packet: one pass of `while attempts <=
\* send_retry_attempts` with a datagram received, the check after the loop and
\* the return to send_file
send_data_packet(s, in) ==
  LET c == sess[s]
      d == send_foreign(c, send_sent_and_received(c, in), in)
      brk == send_acked(c, in)
  IN /\ impl = "transfer"
     /\ c.pc = "send"
     /\ in \in send_inputs(s) \ {Timeout}
     /\ IF ~brk /\ d.attempts <= config.send_retry_attempts THEN Set(s, d)
        ELSE IF d.attempts > config.send_retry_attempts
        THEN Set(s, [d EXCEPT !.pc = "failed", !.result = Err(Exceeded),
                       !.exhausted = ~brk])
        ELSE Set(s, [next_block(d) EXCEPT !.pc = "read"])
     /\ UNCHANGED fs
     /\ SessionFrame

\* mod.rs TftpServer::send_file: the top of a pass of `for number in 1..`;
\* data_packet is made anew in every pass.  With send_retry_attempts = 0 the
\* loop that sends has no pass and the next block is read at once
TftpServer_send_file(s, r) ==
  LET c == sess[s]
      n == after_read(c, read_block(c, Fill(0, MAX_DATA_SIZE)))
  IN /\ impl = "server"
     /\ c.pc = "read"
     /\ r \in {"ok"} \cup IoErrorKinds
     /\ IF r # "ok"
        THEN Set(s, [c EXCEPT !.pc = "failed", !.lastSent = <<>>,
                       !.clean = FALSE,
                       !.result = Err(translate_io_error(r))])
        ELSE IF n.pc = "send" /\ config.send_retry_attempts = 0
        THEN Set(s, [next_block(n) EXCEPT !.pc = "read"])
        ELSE Set(s, n)
     /\ UNCHANGED fs
     /\ SessionFrame

\* mod.rs TftpServer::send_file: one pass of `for _ in 0..send_retry_attempts`
\* with a datagram received; when the passes are used up the outer loop goes on
TftpServer_send_file_pass(s, in) ==
  LET c == sess[s]
      d == send_foreign(c, send_sent_and_received(c, in), in)
      brk == send_acked(c, in)
  IN /\ impl = "server"
     /\ c.pc = "send"
     /\ config.send_retry_attempts > 0
     /\ in \in send_inputs(s) \ {Timeout}
     /\ IF ~brk /\ d.attempts < config.send_retry_attempts THEN Set(s, d)
        ELSE Set(s, [next_block(d) EXCEPT !.pc = "read",
                       !.exhausted = @ \/ ~brk])
     /\ UNCHANGED fs
     /\ SessionFrame

(***************************************************************************)
(* The server.                                                             *)
(***************************************************************************)
Next ==
  \/ \E d \in ListenerInputs : start(d)
  \/ start_recv_err
  \/ \E s \in Sessions, bindOk \in BOOLEAN : handle_request_setup(s, bindOk)
  \/ \E s \in Sessions, sendOk \in BOOLEAN : handle_request_err(s, sendOk)
  \/ \E s \in Sessions : handle_request_ok(s)
  \/ \E s \in Sessions : recieve_file_exists(s)
  \/ \E s \in Sessions, r \in {"ok"} \cup IoErrorKinds : recieve_file_create(s, r)
  \/ \E s \in Sessions : recieve_file_send_err(s)
  \/ \E s \in Sessions, f \in {"none", "write", "send"} :
        /\ impl = "transfer" /\ sess[s].pc = "recv"
        /\ \E in \in recieve_inputs(s) : recieve_file(s, in, f)
  \/ \E s \in Sessions, f \in {"none", "write", "send"} :
        /\ impl = "server" /\ sess[s].pc = "recv"
        /\ \E in \in recieve_inputs(s) : TftpServer_recieve_file(s, in, f)
  \/ \E s \in Sessions, end \in {"panicked", "spin"} :
        TftpServer_recieve_file_spin(s, end)
  \/ \E s \in Sessions, r \in {"ok"} \cup IoErrorKinds : send_file_open(s, r)
  \/ \E s \in Sessions, r \in {"ok"} \cup IoErrorKinds : send_file(s, r)
  \/ \E s \in Sessions, sent \in BOOLEAN : send_data_packet_panic(s, sent)
  \/ \E s \in Sessions :
        /\ impl = "transfer" /\ sess[s].pc = "send"
        /\ \E in \in send_inputs(s) : send_data_packet(s, in)
  \/ \E s \in Sessions, r \in {"ok"} \cup IoErrorKinds : TftpServer_send_file(s, r)
  \/ \E s \in Sessions :
        /\ impl = "server" /\ sess[s].pc = "send"
        /\ \E in \in send_inputs(s) : TftpServer_send_file_pass(s, in)

Spec == Init /\ [][Next]_vars

(***************************************************************************)
(* One session thread at the limits of its counters: the u16 block counter *)
(* of a transfer that has moved 65533 blocks, the u8 attempt counter under *)
(* a retry budget of 255, and file.read returning fewer bytes than asked.  *)
(***************************************************************************)
\* a build with overflow checks: `for number in ..` panics when it is asked
\* for the block after which the u16 would overflow, one without wraps to 0
u16_overflow(s) ==
  LET c == sess[s] IN
  /\ c.pc \in {"recv", "read"}
  /\ c.number = 65535
  /\ c.tries = 0
  /\ (impl = "server" /\ c.pc = "recv") => config.send_retry_attempts > 0
  /\ Set(s, Panicked(c))
  /\ UNCHANGED fs
  /\ SessionFrame

\* transfer.rs, `attempts += 1` with attempts = 255: a build with overflow
\* checks panics, one without goes on with attempts = 0
u8_overflow(s) ==
  LET c == sess[s] IN
  /\ impl = "transfer"
  /\ c.pc \in {"recv", "send"}
  /\ c.attempts = 255
  /\ Set(s, Panicked(c))
  /\ UNCHANGED fs
  /\ SessionFrame

\* byte counts a short file.read returns
ShortReads == {100}

\* transfer.rs send_file: the top of a pass when file.read returns n bytes and
\* the file has more for the vector
send_file_short(s, n) ==
  LET c == sess[s] IN
  /\ impl = "transfer"
  /\ c.pc = "read"
  /\ n \in ShortReads
  /\ n < BLen(file_read(c, BLen(c.data)))
  /\ Set(s, after_read(c, read_block_short(c, c.data, n)))
  /\ UNCHANGED fs
  /\ SessionFrame

\* mod.rs TftpServer::send_file: the same
TftpServer_send_file_short(s, n) ==
  LET c == sess[s]
      m == after_read(c, read_block_short(c, Fill(0, MAX_DATA_SIZE), n))
  IN /\ impl = "server"
     /\ c.pc = "read"
     /\ n \in ShortReads
     /\ n < BLen(file_read(c, MAX_DATA_SIZE))
     /\ IF m.pc = "send" /\ config.send_retry_attempts = 0
        THEN Set(s, [next_block(m) EXCEPT !.pc = "read"])
        ELSE Set(s, m)
     /\ UNCHANGED fs
     /\ SessionFrame

\* lengths of the long files: 65535 blocks of which the last is short, 65535
\* full blocks, 65537 blocks of which the last is short
LongLens == { 65534 * MAX_DATA_SIZE + 100, 65535 * MAX_DATA_SIZE,
              65536 * MAX_DATA_SIZE + 100 }

\* the session thread of a read request as send_file_open leaves it
Opened ==
  [FreeSession EXCEPT !.pc = "read", !.kind = "rrq", !.path = FileA,
     !.number = 1, !.opened = TRUE, !.data = Fill(0, MAX_DATA_SIZE),
     !.hooks = <<"read_started">>]

\* and after 65533 blocks were sent and acknowledged; the history starts here
Sent65533 ==
  [Opened EXCEPT !.number = 65534, !.pos = 65533 * MAX_DATA_SIZE,
     !.previous_bytes_sent = MAX_DATA_SIZE,
     !.data = LongContent(MAX_DATA_SIZE), !.recvd = TRUE,
     !.lastSent = <<(<<"data", "A", 65533, MAX_DATA_SIZE>>)>>]

\* the session thread of a write request as recieve_file_create leaves it
Created ==
  [FreeSession EXCEPT !.pc = "recv", !.kind = "wrq", !.path = FileA,
     !.opened = TRUE, !.hooks = <<"write_started">>]

\* and after 65533 blocks were written; the history starts here
Written65533 ==
  [Created EXCEPT !.number = 65533, !.pos = 65533 * MAX_DATA_SIZE,
     !.recvd = TRUE, !.lastSent = <<(<<"ack", "A", 65532>>)>>]

SessionInit ==
  /\ listener = "running"
  /\ handled = MaxDatagrams /\ started = 1 /\ requests = 1 /\ lsent = 0
  /\ CodecOff
  /\ \E c \in {Opened, Sent65533, Created, Written65533} :
        /\ sess = [s \in Sessions |-> IF s = 1 THEN c ELSE FreeSession]
        /\ \/ /\ c.number >= 65533
              /\ impl \in {"server", "transfer"}
              /\ config \in { set_send_retry_attempts(TftpServer_new, k) :
                                k \in 0..MaxRetry }
              /\ \/ /\ c.kind = "rrq"
                    /\ fs \in [Paths -> {File(LongContent(L)) : L \in LongLens}]
                    /\ clientLen = 0
                 \/ /\ c.kind = "wrq"
                    /\ fs = [p \in Paths |-> File(LongContent(c.pos))]
                    /\ clientLen \in LongLens
           \/ /\ c.number <= 1
              /\ \/ /\ impl = "transfer"
                    /\ config = set_send_retry_attempts(TftpServer_new, 255)
                 \/ /\ impl \in {"server", "transfer"}
                    /\ c.kind = "rrq"
                    /\ config \in { set_send_retry_attempts(TftpServer_new, k) :
                                      k \in 0..MaxRetry }
              /\ \/ /\ c.kind = "rrq"
                    /\ fs \in [Paths -> {File(Content(0, L)) : L \in FileLens}]
                    /\ clientLen = 0
                 \/ /\ c.kind = "wrq"
                    /\ fs = [p \in Paths |-> File(<<>>)]
                    /\ clientLen \in ClientLens

SessionNext ==
  \/ \E s \in Sessions, sendOk \in BOOLEAN : handle_request_err(s, sendOk)
  \/ \E s \in Sessions : handle_request_ok(s)
  \/ \E s \in Sessions : recieve_file_send_err(s)
  \/ \E s \in Sessions, f \in {"none", "write", "send"} :
        /\ impl = "transfer" /\ sess[s].pc = "recv" /\ sess[s].tries < MaxTries
        /\ \E in \in recieve_inputs(s) : recieve_file(s, in, f)
  \/ \E s \in Sessions, f \in {"none", "write", "send"} :
        /\ impl = "server" /\ sess[s].pc = "recv"
        /\ \E in \in recieve_inputs(s) : TftpServer_recieve_file(s, in, f)
  \/ \E s \in Sessions, end \in {"panicked", "spin"} :
        TftpServer_recieve_file_spin(s, end)
  \/ \E s \in Sessions, r \in {"ok"} \cup IoErrorKinds : send_file(s, r)
  \/ \E s \in Sessions, sent \in BOOLEAN : send_data_packet_panic(s, sent)
  \/ \E s \in Sessions :
        /\ impl = "transfer" /\ sess[s].pc = "send" /\ sess[s].tries < MaxTries
        /\ \E in \in send_inputs(s) : send_data_packet(s, in)
  \/ \E s \in Sessions, r \in {"ok"} \cup IoErrorKinds : TftpServer_send_file(s, r)
  \/ \E s \in Sessions :
        /\ impl = "server" /\ sess[s].pc = "send"
        /\ \E in \in send_inputs(s) : TftpServer_send_file_pass(s, in)
  \/ \E s \in Sessions : u16_overflow(s)
  \/ \E s \in Sessions : u8_overflow(s)
  \/ \E s \in Sessions, n \in ShortReads : send_file_short(s, n)
  \/ \E s \in Sessions, n \in ShortReads : TftpServer_send_file_short(s, n)

SessionSpec == SessionInit /\ [][SessionNext]_vars

(***************************************************************************)
(* The codec on its own: a block number and a payload are encoded and the  *)
(* bytes decoded again.                                                    *)
(***************************************************************************)
CodecBlocks ==
  {0, 1, 2, 255, 256, 257, 511, 512, 4660, 32767, 32768, 65280, 65534, 65535}

CodecPayloads ==
  { <<>>, Fill(0, 1), Fill(0, MAX_DATA_SIZE), Fill(255, MAX_DATA_SIZE),
    Content(0, MAX_DATA_SIZE), Content(0, MAX_DATA_SIZE - 1),
    Bytes(<<0, 3, 0, 1>>) }

\* "Message", "", a text with a NUL inside, a text that ends in a NUL
CodecMessages ==
  { <<77, 101, 115, 115, 97, 103, 101>>, <<>>, <<97, 0, 98>>, <<97, 0>> }

CodecErrors ==
  { TftpError(ErrorCodes[i], m) :
      i \in 1..8, m \in {<<>>} \cup {<<x>> : x \in CodecMessages} }

\* buffers handed to the three decoders as they are
CodecBuffers ==
  { <<>>, <<0>>, <<0, 4>>, <<0, 4, 0>>, <<0, 4, 0, 1>>, <<0, 4, 0, 1, 9>>,
    <<0, 3>>, <<0, 3, 0>>, <<0, 3, 0, 1>>, <<0, 3, 0, 1, 7>>,
    <<0, 5>>, <<0, 5, 0>>, <<0, 5, 0, 0>>, <<0, 5, 0, 0, 0>>,
    <<0, 5, 0, 0, 65>>, <<0, 5, 0, 1, 72, 105>>, <<0, 5, 0, 1, 72, 105, 0>>,
    <<0, 5, 1, 0, 0>>, <<0, 5, 0, 8, 0>>, <<0, 5, 0, 7, 0>>,
    <<0, 5, 0, 0, 255, 0>>, <<0, 5, 0, 0, 0, 65, 0>>,
    <<1, 4, 0, 1>>, <<1, 3, 0, 1>>, <<1, 5, 0, 0, 0>>,
    <<0, 6, 0, 0, 0>>, <<4, 0, 0, 1>>, <<3, 0, 0, 1>>, <<5, 0, 0, 0, 0>> }

CodecInit ==
  /\ impl = "transfer"
  /\ config = [send_retry_attempts |-> 0, read_timeout |-> "Some"]
  /\ listener = "running"
  /\ handled = 0 /\ started = 0 /\ requests = 0 /\ lsent = 0
  /\ clientLen = 0
  /\ fs = [p \in Paths |-> NoFile]
  /\ sess = [s \in Sessions |-> FreeSession]
  /\ \/ /\ cstage = "input"
        /\ cnum \in CodecBlocks
        /\ cdata \in CodecPayloads
        /\ cerr = TftpError("Undefined", <<>>)
        /\ cbuf = <<>>
     \/ /\ cstage = "error_input"
        /\ cnum = 0 /\ cdata = <<>>
        /\ cerr \in CodecErrors
        /\ cbuf = <<>>
     \/ /\ cstage = "raw"
        /\ cnum = 0 /\ cdata = <<>>
        /\ cerr = TftpError("Undefined", <<>>)
        /\ cbuf \in {Bytes(b) : b \in CodecBuffers}
  /\ cack = None /\ cdat = None /\ cerrd = None

ack_as_packet ==
  /\ cstage = "input"
  /\ cstage' = "ack_encoded"
  /\ cbuf' = TftpAck_as_packet(TftpAck(cnum))
  /\ UNCHANGED <<serverVars, cnum, cdata, cack, cdat, cerr, cerrd>>

ack_from_buffer ==
  /\ cstage = "ack_encoded"
  /\ cstage' = "ack_decoded"
  /\ cack' = TftpAck_from_buffer(cbuf)
  /\ UNCHANGED <<serverVars, cnum, cdata, cbuf, cdat, cerr, cerrd>>

data_as_packet ==
  /\ cstage = "input"
  /\ cstage' = "data_encoded"
  /\ cbuf' = TftpData_as_packet(TftpData(cnum, cdata))
  /\ UNCHANGED <<serverVars, cnum, cdata, cack, cdat, cerr, cerrd>>

data_from_buffer ==
  /\ cstage = "data_encoded"
  /\ cstage' = "data_decoded"
  /\ cdat' = TftpData_from_buffer(cbuf)
  /\ UNCHANGED <<serverVars, cnum, cdata, cbuf, cack, cerr, cerrd>>

error_as_packet ==
  /\ cstage = "error_input"
  /\ cstage' = "error_encoded"
  /\ cbuf' = TftpError_as_packet(cerr)
  /\ UNCHANGED <<serverVars, cnum, cdata, cack, cdat, cerr, cerrd>>

error_from_buffer ==
  /\ cstage = "error_encoded"
  /\ cstage' = "error_decoded"
  /\ cerrd' = TftpError_from_buffer(cbuf)
  /\ UNCHANGED <<serverVars, cnum, cdata, cbuf, cack, cdat, cerr>>

\* the three from_buffer functions on one buffer
raw_from_buffer ==
  /\ cstage = "raw"
  /\ cstage' = "raw_decoded"
  /\ cack' = TftpAck_from_buffer(cbuf)
  /\ cdat' = TftpData_from_buffer(cbuf)
  /\ cerrd' = TftpError_from_buffer(cbuf)
  /\ UNCHANGED <<serverVars, cnum, cdata, cbuf, cerr>>

CodecNext ==
  \/ ack_as_packet
  \/ ack_from_buffer
  \/ data_as_packet
  \/ data_from_buffer
  \/ error_as_packet
  \/ error_from_buffer
  \/ raw_from_buffer

CodecSpec == CodecInit /\ [][CodecNext]_vars

(***************************************************************************)
(* Properties.                                                             *)
(***************************************************************************)
Range(f) == {f[i] : i \in DOMAIN f}

UpTo(n) == [i \in 1..n |-> i]

\* no other session has created the file session s writes
SoleWriter(s) ==
  \A t \in Sessions \ {s} :
     ~(sess[t].kind = "wrq" /\ sess[t].opened /\ sess[t].path = sess[s].path)

\* no session has created a file
NoWriter == \A t \in Sessions : ~(sess[t].kind = "wrq" /\ sess[t].opened)

\* the payloads of the peer's blocks w[1], w[2], ... one after the other
RECURSIVE PayloadsOf(_, _)
PayloadsOf(s, w) ==
  IF Len(w) = 0 THEN <<>>
  ELSE BCat(ClientBlock[s, clientLen, Head(w)].data, PayloadsOf(s, Tail(w)))

\* C1: in a receive session the file holds the payloads of the peer's blocks
\* 1, 2, ..., m in block order, each written once; no block is acknowledged
\* before it was written; on success m is the peer's last block.
C1_OrderedExactlyOnce ==
  \A s \in Sessions :
     LET c == sess[s] IN
     (c.kind = "wrq" /\ c.opened /\ SoleWriter(s)) =>
        /\ c.acked \subseteq {0} \cup Range(c.wrote)
        /\ c.wrote = UpTo(Len(c.wrote))
        /\ fs[c.path].data = PayloadsOf(s, c.wrote)
        /\ c.result = Ok => /\ c.wrote = UpTo(NBlocks(clientLen))
                            /\ fs[c.path].data = ClientContent[s, clientLen]

\* the property of C1 for the functions of lib/transfer.rs alone
C1_Transfer == impl = "transfer" => C1_OrderedExactlyOnce

C1_TransferWitness ==
  \E s \in Sessions :
     /\ impl = "transfer" /\ sess[s].kind = "wrq" /\ sess[s].result = Ok
     /\ clientLen = 1024 /\ ~sess[s].clean

\* the DATA blocks a file of L bytes is sent as: <<number, payload length>>
ExpectedBlocks(L) ==
  [i \in 1..NBlocks(L) |->
     <<i, IF i < NBlocks(L) THEN MAX_DATA_SIZE ELSE L % MAX_DATA_SIZE>>]

IsPrefix(a, b) == Len(a) <= Len(b) /\ a = SubSeq(b, 1, Len(a))

\* C2: a send session whose every DATA block is acknowledged by the peer
\* sends the blocks 1, 2, ..., floor(L/512)+1 of 512 bytes, the last of
\* L mod 512 bytes, and then returns success.
C2_SendsAllBlocks ==
  \A s \in Sessions :
     LET c == sess[s]
         L == BLen(fs[c.path].data)
     IN (c.kind = "rrq" /\ c.opened /\ c.clean /\ NoWriter) =>
           /\ IsPrefix(c.sentData, ExpectedBlocks(L))
           /\ c.pc \notin {"failed", "panicked"}
           /\ c.pc \in {"returned", "done"} =>
                 c.result = Ok /\ c.sentData = ExpectedBlocks(L)

\* the property of C2 with a retry budget of at least 1
C2_WithRetries == config.send_retry_attempts >= 1 => C2_SendsAllBlocks

C2_WithRetriesWitness ==
  \E s \in Sessions :
     /\ sess[s].kind = "rrq" /\ sess[s].opened /\ sess[s].clean
     /\ sess[s].pc = "done" /\ BLen(fs[sess[s].path].data) = 1000
     /\ sess[s].sentData = <<(<<1, 512>>), (<<2, 488>>)>>

\* the datagram is the DATA block the receive session s waits for
ExpectedData(s, in) ==
  LET data == TftpData_from_buffer(recv_from(MAX_DATA_SIZE + 2 + 2, in)) IN
  /\ in.tag = "dgram" /\ in.addr = sess[s].addr
  /\ data.some /\ data.number = U16(sess[s].number + 1)

\* a pass of the receive loop of session s in which recv_from returns `in`
ReceivePass(s, in) ==
  recieve_file(s, in, "none") \/ TftpServer_recieve_file(s, in, "none")

\* a pass of the send loop of session s in which recv_from returns `in`
SendPass(s, in) ==
  \/ in = Timeout /\ send_data_packet_panic(s, TRUE)
  \/ in # Timeout /\ (send_data_packet(s, in) \/ TftpServer_send_file_pass(s, in))

\* the outcome C3 and C4 state for a pass that did not get the expected reply:
\* the block is the same, one more try is used, and the (k+1)-th try is fatal
StalledOutcome(c, d) ==
  /\ d.number = c.number
  /\ d.tries = c.tries + 1
  /\ d.tries <= config.send_retry_attempts + 1
  /\ IF d.tries = config.send_retry_attempts + 1
     THEN d.pc = "failed" /\ d.result = Err(Exceeded)
     ELSE d.pc = c.pc

C3_Stalled(s, in) ==
  (~ExpectedData(s, in) /\ ReceivePass(s, in)) =>
     /\ StalledOutcome(sess[s], sess'[s])
     /\ sess'[s].acked = sess[s].acked \cup {sess[s].number}
     /\ <<"ack", sess[s].addr, sess[s].number>> \in Range(sess'[s].lastSent)

\* C3: every pass of a receive session that does not get the expected DATA
\* block sends Ack{n} and keeps n; the (k+1)-th such pass for a block, and no
\* earlier one, ends the session with the fatal error.
C3_RetryBudget ==
  [][\A s \in Sessions : \A in \in recieve_inputs(s) : C3_Stalled(s, in)]_vars

\* the property of C3 for recieve_file of lib/transfer.rs alone
C3_Transfer ==
  [][impl = "transfer" =>
       \A s \in Sessions : \A in \in recieve_inputs(s) : C3_Stalled(s, in)]_vars

C3_TransferWitness ==
  \E s \in Sessions :
     /\ impl = "transfer" /\ sess[s].kind = "wrq" /\ sess[s].exhausted
     /\ sess[s].number = 1 /\ sess[s].tries = 2

\* the reply is a timeout or a datagram of the peer that is no ACK
NoAck(s, in) ==
  \/ in = Timeout
  \/ in.addr = sess[s].addr /\ ~TftpAck_from_buffer(recv_from(4, in)).some

C4_Resend(s, in) ==
  (NoAck(s, in) /\ SendPass(s, in)) =>
     /\ StalledOutcome(sess[s], sess'[s])
     /\ sess'[s].attempts = sess[s].attempts + 1

\* C4: in a send session a timeout or an undecodable reply uses one retry
\* attempt and keeps the block, which is sent again; the (k+1)-th send without
\* its ACK ends the session with the fatal error returned, not with a panic.
C4_SendRetry ==
  [][\A s \in Sessions : \A in \in send_inputs(s) : C4_Resend(s, in)]_vars

\* the property of C4 for send_data_packet of lib/transfer.rs where the reply
\* is a datagram
C4_Undecodable ==
  [][impl = "transfer" =>
       \A s \in Sessions : \A in \in send_inputs(s) \ {Timeout} :
          C4_Resend(s, in)]_vars

C4_UndecodableWitness ==
  \E s \in Sessions :
     /\ impl = "transfer" /\ sess[s].kind = "rrq" /\ sess[s].exhausted
     /\ sess[s].tries = 2 /\ sess[s].recvd

C5_Foreign(s, in) ==
  (in.tag = "dgram" /\ in.addr # sess[s].addr
   /\ (ReceivePass(s, in) \/ SendPass(s, in))) =>
     /\ UnknownTransferID(in.addr) \in Range(sess'[s].lastSent)
     /\ sess'[s].number = sess[s].number
     /\ sess'[s].wrote = sess[s].wrote
     /\ fs' = fs
     /\ sess'[s].pc \notin {"read", "returned"}

\* C5: a datagram of an address other than the peer's is answered with
\* UnknownTransferID; the block number stays, nothing is written to the file
\* and the datagram is not taken as the peer's DATA or ACK.
C5_ForeignSender ==
  [][\A s \in Sessions :
       \A in \in recieve_inputs(s) \cup send_inputs(s) : C5_Foreign(s, in)]_vars

\* the property of C5 for recieve_file of lib/transfer.rs alone
C5_TransferReceive ==
  [][impl = "transfer" =>
       \A s \in Sessions : \A in \in recieve_inputs(s) : C5_Foreign(s, in)]_vars

FileExists == TftpError("FileExists", <<>>)

\* the step of recieve_file that finds the target path existing
C6_Rejects(s) ==
  (sess[s].pc = "exists" /\ Exists(sess[s].path) /\ sess'[s] # sess[s]) =>
     /\ sess'[s].pc = "failed"
     /\ sess'[s].result = Err(FileExists)
     /\ fs' = fs

\* a session whose receive function returned FileExists
C6_Rejected(s) ==
  LET c == sess[s] IN
  c.result = Err(FileExists) =>
     /\ c.kind = "wrq" /\ c.pc \in {"failed", "done", "panicked"}
     /\ c.acked = {} /\ c.wrote = <<>> /\ ~c.recvd /\ ~c.opened
     /\ c.hooks = <<>>
     /\ fs[c.path].exists
     /\ c.pc = "failed" => c.errs = <<>>
     /\ c.pc = "done" => /\ c.errs = <<FileExists>>
                         /\ c.lastSent = <<(<<"error", c.addr, FileExists>>)>>

\* C6: a write request for a path that exists makes the receive function
\* return FileExists with the file as it was; the session has then sent no
\* ACK, called recv_from on its socket never, created or opened no file, and
\* the one packet it sends before it ends is the FileExists ERROR.
C6_ExistingFileGuard ==
  /\ [][\A s \in Sessions :
          /\ C6_Rejects(s)
          /\ (sess[s].result = Err(FileExists) /\ sess'[s] # sess[s]) => fs' = fs]_vars
  /\ [](\A s \in Sessions : C6_Rejected(s))

C6_Witness ==
  \E s \in Sessions :
     /\ sess[s].pc = "done" /\ sess[s].errs = <<FileExists>>
     /\ fs[sess[s].path] = File(Content(0, 1000))

\* a loop of session s that ran out of retries: the session sends nothing
\* more and ends
C7_Ends(s) ==
  (sess[s].exhausted /\ sess'[s] # sess[s]) =>
     /\ sess'[s].lastSent = <<>>
     /\ sess'[s].pc = "done"

\* C7: after a session has used up the retries for a block, every further
\* step of the session sends no packet and ends the session.
C7_SilentEnd == [][\A s \in Sessions : C7_Ends(s)]_vars

\* C8: the accept loop keeps running whatever happens, and handles every
\* datagram it is sent.
C8_AcceptLoopRuns == listener = "running"

\* C9: every session was started by a ReadRequest or WriteRequest datagram,
\* one session for each; the listener has sent no packet.
C9_OnlyRequestsStartSessions ==
  /\ started = requests
  /\ lsent = 0
  /\ Cardinality({s \in Sessions : sess[s].pc # "free"}) = started

C9_Witness == handled = 2 /\ started = 1 /\ sess[1].pc = "done"

\* C10: Ack{n} is encoded as 0,4,hi,lo and Data{n,p} as 0,3,hi,lo,p with the
\* block number high byte first, and decoding the encoding gives the packet.
C10_RoundTrip ==
  /\ cstage \in {"ack_encoded", "ack_decoded"} =>
        cbuf = Bytes(<<0, 4, cnum \div 256, cnum % 256>>)
  /\ cstage = "ack_decoded" =>
        cack = [some |-> TRUE, number |-> cnum]
  /\ cstage \in {"data_encoded", "data_decoded"} =>
        /\ BLen(cbuf) = 4 + BLen(cdata)
        /\ BTake(cbuf, 4) = Bytes(<<0, 3, cnum \div 256, cnum % 256>>)
        /\ BDrop(cbuf, 4) = cdata
  /\ cstage = "data_decoded" =>
        cdat = [some |-> TRUE, number |-> cnum, data |-> cdata]

C10_Witness ==
  /\ cstage = "data_decoded" /\ cnum = 4660 /\ BLen(cdata) = MAX_DATA_SIZE
  /\ cdat.some

\* C11 as stated: decoding the encoding of a TftpError gives the TftpError,
\* also when it has no message.
C11_ErrorRoundTrip ==
  cstage = "error_decoded" => cerrd = SomeError(cerr)

\* C11: decoding the encoding of a TftpError with a message gives the
\* TftpError; one with no message is encoded with the default text of its
\* code and decodes to the TftpError that has that text as its message.
C11_ErrorRoundTripWithMessage ==
  /\ cstage \in {"error_encoded", "error_decoded"} =>
        LET text == IF cerr.message = <<>> THEN DefaultMessage(cerr.code)
                    ELSE cerr.message[1]
        IN /\ BLen(cbuf) = 5 + Len(text)
           /\ BSeq(BTake(cbuf, 4)) = <<0, 5, 0, CodeByte(cerr.code)>>
           /\ BSeq(BTake(BDrop(cbuf, 4), Len(text))) = text
           /\ BAt(cbuf, BLen(cbuf)) = 0
  /\ cstage = "error_decoded" =>
        IF cerr.message # <<>> THEN cerrd = SomeError(cerr)
        ELSE cerrd = SomeError(TftpError(cerr.code, <<DefaultMessage(cerr.code)>>))

C11_Witness ==
  /\ cstage = "error_decoded"
  /\ cerr = TftpError("NoSuchUser", <<(<<97, 0, 98>>)>>)
  /\ cerrd = SomeError(cerr)

\* what from_buffer returns is no packet or a whole one
WholeAck(a) == a = None \/ (a.some /\ a = TftpAck(a.number) /\ a.number \in 0..65535)

WholeData(d) ==
  d = None \/ (d.some /\ d = TftpData(d.number, d.data) /\ d.number \in 0..65535)

WholeError(e) ==
  e = None \/ (/\ e.some /\ e = SomeError(TftpError(e.value.code, e.value.message))
               /\ e.value.code \in Range(ErrorCodes)
               /\ Len(e.value.message) = 1)

\* C12: the decoders return no packet for a buffer shorter than 4 bytes (ACK,
\* DATA) or 5 bytes (ERROR) and for one that does not start with the opcode of
\* the packet; the ERROR buffer 0,5,0,0,0 is accepted; what is returned is a
\* whole packet.
C12_DecodeRejects ==
  cstage = "raw_decoded" =>
     /\ BLen(cbuf) < 4 => cack = None /\ cdat = None
     /\ BLen(cbuf) < 5 => cerrd = None
     /\ BLen(cbuf) >= 2 =>
           /\ BSeq(BTake(cbuf, 2)) # <<0, 4>> => cack = None
           /\ BSeq(BTake(cbuf, 2)) # <<0, 3>> => cdat = None
           /\ BSeq(BTake(cbuf, 2)) # <<0, 5>> => cerrd = None
     /\ cbuf = Bytes(<<0, 5, 0, 0, 0>>) =>
           cerrd = SomeError(TftpError("Undefined", <<(<<>>)>>))
     /\ WholeAck(cack) /\ WholeData(cdat) /\ WholeError(cerrd)

C12_Witness ==
  /\ cstage = "raw_decoded" /\ cbuf = Bytes(<<0, 5, 0, 0>>)
  /\ cack = None /\ cdat = None /\ cerrd = None

\* C13: TftpError::from_buffer returns a packet only for a buffer with byte 2
\* equal to 0, a code byte in 0..7 and a NUL as its last byte, the terminator
\* of the message.
C13_ErrorDecodeNeedsTerminator ==
  (cstage = "raw_decoded" /\ cerrd.some) =>
     /\ BAt(cbuf, 3) = 0
     /\ BAt(cbuf, 4) \in 0..7
     /\ BAt(cbuf, BLen(cbuf)) = 0

\* the part of C13 about byte 2 and the code byte
C13_ErrorDecodeHeader ==
  (cstage = "raw_decoded" /\ cerrd.some) =>
     BAt(cbuf, 3) = 0 /\ BAt(cbuf, 4) \in 0..7

\* the request has a filename or a mode field that is not UTF-8
BadUtf8(d) ==
  LET parts == splitn3(SubSeq(d, 3, Len(d))) IN
  \/ ~from_utf8_ok(parts[1])
  \/ Len(parts) >= 2 /\ ~from_utf8_ok(parts[2])

\* the session thread of s parses its request, with its socket bound and a
\* read timeout that is not zero
Parses(s) ==
  /\ sess[s].pc = "start" /\ config.read_timeout = "Some"
  /\ handle_request_setup(s, TRUE)

\* the session answered its request with the one ERROR packet e and ended
AnsweredWith(s, e) ==
  /\ sess'[s].pc = "done"
  /\ sess'[s].errs = <<e>>
  /\ sess'[s].lastSent = <<(<<"error", sess[s].addr, e>>)>>
  /\ ~sess'[s].opened
  /\ fs' = fs

\* C14: a request with a filename or mode that is not UTF-8 is answered with
\* an ERROR packet and its session ends normally, with no panic.
C14_BadUtf8Answered ==
  [][\A s \in Sessions :
       (Parses(s) /\ BadUtf8(sess[s].packet)) =>
          /\ parse_rw_request(sess[s].packet, Len(sess[s].packet)).tag = "err"
          /\ \E e \in Range(sess'[s].errs) : AnsweredWith(s, e)]_vars

\* C15: no session thread is started under a configuration with a zero read
\* timeout.
C15_NoZeroReadTimeout ==
  \A s \in Sessions : sess[s].pc # "free" => config.read_timeout # "Zero"

\* what C16 says the parser returns for a request d whose fields are UTF-8
C16_Expected(d) ==
  LET body == SubSeq(d, 3, Len(d))
      parts == splitn3(body)
  IN IF Len(body) = 0
     THEN [tag |-> "err", err |-> TftpError("Undefined", <<"Invalid filename">>)]
     ELSE IF Len(parts) < 2
     THEN [tag |-> "err", err |-> TftpError("Undefined", <<"Invalid mode string">>)]
     ELSE LET mode == to_lowercase(parts[2]) IN
          IF mode = StrNetascii
          THEN [tag |-> "ok", filename |-> parts[1], mode |-> "NetAscii"]
          ELSE IF mode = StrOctet
          THEN [tag |-> "ok", filename |-> parts[1], mode |-> "Octet"]
          ELSE IF mode = StrEmail
          THEN [tag |-> "err",
                err |-> TftpError("Undefined",
                                  <<"Email transfer mode is not supported">>)]
          ELSE [tag |-> "err",
                err |-> TftpError("Undefined", <<"Unknown transfer mode">>)]

C16_Parsed(s) ==
  (Parses(s) /\ ~BadUtf8(sess[s].packet)) =>
     LET d == sess[s].packet
         r == parse_rw_request(d, Len(d))
     IN /\ r = C16_Expected(d)
        /\ IF r.tag = "err" THEN AnsweredWith(s, r.err)
           ELSE /\ sess'[s].pc \in {"exists", "open"}
                /\ sess'[s].path = r.filename
                /\ sess'[s].errs = <<>> /\ sess'[s].lastSent = <<>>

\* C16: the parser takes filename and mode from the request body as the claim
\* lists them, a request with no filename gets 'Invalid filename', and on a
\* parse error the session sends that ERROR and opens no file.
C16_RequestParsing == [][\A s \in Sessions : C16_Parsed(s)]_vars

\* the property of C16 for requests that have a byte after the opcode
C16_WithBody ==
  [][\A s \in Sessions : Len(sess[s].packet) > 2 => C16_Parsed(s)]_vars

C16_WithBodyWitness ==
  \E s \in Sessions :
     /\ sess[s].pc = "done" /\ sess[s].kind = "wrq"
     /\ sess[s].errs = <<TftpError("Undefined", <<"Unknown transfer mode">>)>>

\* the datagram is the peer's ACK of the block the send session s waits for
ExpectedAck(s, in) ==
  in = Dgram(sess[s].addr, TftpAck_as_packet(TftpAck(sess[s].number)))

\* session s went on to the block after c.number, or ended the transfer well
Advanced(c, d) ==
  \/ d.number = U16(c.number + 1) /\ d.pc \in {"recv", "read"}
  \/ d.pc = "returned" /\ d.result = Ok

\* C17: a pass that receives the expected reply makes the session go on to
\* the next block, whichever of the permitted attempts it is; a session that
\* reports the retries exceeded has not received the expected reply in the
\* pass that ended its loop.
C17_ExpectedReplyAccepted ==
  /\ [][\A s \in Sessions :
          /\ \A in \in recieve_inputs(s) :
                (ExpectedData(s, in) /\ ReceivePass(s, in)) =>
                   Advanced(sess[s], sess'[s])
          /\ \A in \in send_inputs(s) :
                (ExpectedAck(s, in) /\ SendPass(s, in)) =>
                   Advanced(sess[s], sess'[s])]_vars
  /\ [](\A s \in Sessions :
          sess[s].result = Err(Exceeded) => sess[s].exhausted)

\* the property of C17 for the passes that are not the last one permitted
C17_BeforeLastAttempt ==
  [][\A s \in Sessions :
       sess[s].attempts < config.send_retry_attempts =>
          /\ \A in \in recieve_inputs(s) :
                (ExpectedData(s, in) /\ ReceivePass(s, in)) =>
                   Advanced(sess[s], sess'[s])
          /\ \A in \in send_inputs(s) :
                (ExpectedAck(s, in) /\ SendPass(s, in)) =>
                   Advanced(sess[s], sess'[s])]_vars

\* C18: a send session goes on to the next block only in a pass that received
\* the 4-byte ACK of its block from the peer's address.
C18_StopAndWait ==
  [][\A s \in Sessions :
       (sess[s].pc = "send" /\ sess'[s].number # sess[s].number) =>
          \E in \in send_inputs(s) : ExpectedAck(s, in) /\ SendPass(s, in)]_vars

\* the peer's DATA datagram carries another block than the one waited for
StaleData(s, in) ==
  LET data == TftpData_from_buffer(recv_from(MAX_DATA_SIZE + 2 + 2, in)) IN
  /\ in.tag = "dgram" /\ in.addr = sess[s].addr
  /\ data.some /\ data.number # U16(sess[s].number + 1)

\* C19: a DATA block of the peer that is not block n+1 is ignored: nothing is
\* written, n stays, and the next pass, which sends Ack{n} again, is not
\* entered because of it.
C19_StaleIgnored ==
  [][\A s \in Sessions : \A in \in recieve_inputs(s) :
       (StaleData(s, in) /\ ReceivePass(s, in)) =>
          /\ fs' = fs
          /\ sess'[s].wrote = sess[s].wrote
          /\ sess'[s].number = sess[s].number
          /\ sess'[s].attempts = sess[s].attempts
          /\ sess'[s].pc = "recv"]_vars

\* what of C19 lib/transfer.rs does: nothing is written and n stays
C19_StaleNotWritten ==
  [][impl = "transfer" =>
       \A s \in Sessions : \A in \in recieve_inputs(s) :
          (StaleData(s, in) /\ ReceivePass(s, in)) =>
             /\ fs' = fs
             /\ sess'[s].wrote = sess[s].wrote
             /\ sess'[s].number = sess[s].number]_vars

\* C20: a datagram of a foreign address uses no retry attempt of a send
\* session and does not end its wait.
C20_ForeignNoRetry ==
  [][\A s \in Sessions : \A in \in send_inputs(s) :
       (in.tag = "dgram" /\ in.addr # sess[s].addr /\ SendPass(s, in)) =>
          /\ sess'[s].attempts = sess[s].attempts
          /\ sess'[s].tries = sess[s].tries
          /\ sess'[s].number = sess[s].number
          /\ sess'[s].pc = "send"]_vars

(***************************************************************************)
(* The counters at their limits (SessionSpec).                             *)
(***************************************************************************)
\* C21: the block counter is a u16 that wraps: the block after 65535 is block
\* 0, and a session that reaches 65535 goes on without an error
C21_Wraps(s) ==
  /\ ~u16_overflow(s)
  /\ (sess[s].number = 65535 /\ sess'[s].number # 65535) => sess'[s].number = 0

C21_BlockCounterWraps == [][\A s \in Sessions : C21_Wraps(s)]_vars

\* the DATA block a send session sent last
LastData(s) == sess[s].sentData[Len(sess[s].sentData)]

\* C22: the end-of-transfer test of a send session is true exactly when a
\* DATA packet was sent and the block before was short, also after the block
\* number has wrapped: no zero-length DATA block follows a short block, and
\* the session does not return before a short block was sent
C22_EndOfTransfer ==
  \A s \in Sessions :
    (sess[s].kind = "rrq" /\ sess[s].sentData # <<>>) =>
      /\ (sess[s].pc = "send" /\ sess[s].tries = 0 /\ BLen(sess[s].data) = 0)
           => LastData(s)[2] = MAX_DATA_SIZE
      /\ sess[s].pc = "returned" => LastData(s)[2] < MAX_DATA_SIZE

\* C23: for every retry budget 0..255 the attempt counter never overflows:
\* no retry loop is about to run a pass, which starts with `attempts += 1`,
\* while the u8 counter is at 255
C23_AttemptsNeverOverflow ==
  \A s \in Sessions : sess[s].pc \in {"recv", "send"} => sess[s].attempts < 255

\* C24: in a send session every DATA block except the last carries exactly
\* 512 bytes and the payloads are the file's content in order, also when a
\* read returns fewer bytes than asked for before the end of the file (the
\* file is short enough for the block number not to wrap)
C24_FullBlocks ==
  \A s \in Sessions :
    LET c == sess[s] IN
    (c.kind = "rrq" /\ c.opened
       /\ BLen(fs[c.path].data) < 65534 * MAX_DATA_SIZE) =>
      /\ \A i \in 1..(Len(c.sentData) - 1) : c.sentData[i][2] = MAX_DATA_SIZE
      /\ c.pc = "send" =>
           c.data = BTake(BDrop(fs[c.path].data, c.pos - BLen(c.data)), BLen(c.data))
      /\ c.pc = "returned" => c.pos = BLen(fs[c.path].data)

(***************************************************************************)
(* The callbacks, the courtesy ERROR packet, sessions for the same path.   *)
(***************************************************************************)
StartedHook(c) == IF c.kind = "wrq" THEN "write_started" ELSE "read_started"

CompletedHook(c) == IF c.kind = "wrq" THEN "write_completed" ELSE "read_completed"

\* the callbacks of a session are the started one, then the completed one;
\* the started one is called when the file is open and before any ACK or DATA
\* is sent; the completed one is called exactly when the transfer function
\* returned Ok
C25_Hooks(s) ==
  LET c == sess[s] IN
  /\ c.hooks \in {<<>>, <<StartedHook(c)>>, <<StartedHook(c), CompletedHook(c)>>}
  /\ c.opened <=> c.hooks # <<>>
  /\ c.hooks = <<>> => (c.acked = {} /\ c.sentData = <<>> /\ ~c.recvd)
  /\ Len(c.hooks) = 2 <=> (c.pc = "done" /\ c.result = Ok)

\* the step that calls the completed callback sends nothing, and nothing
\* happens in the session after it
C25_After(s) ==
  /\ Len(sess[s].hooks) = 2 => sess'[s] = sess[s]
  /\ (Len(sess[s].hooks) < 2 /\ Len(sess'[s].hooks) = 2) =>
       /\ sess[s].pc = "returned"
       /\ sess'[s].lastSent = <<>>
       /\ sess'[s].acked = sess[s].acked
       /\ sess'[s].sentData = sess[s].sentData

\* C25: the started hook is called exactly once, after the file was opened or
\* created and before the first ACK or DATA; the completed hook is called
\* exactly once if and only if the transfer function returned success, after
\* the last packet of the transfer, and never on a failed transfer
C25_HookOrder ==
  /\ [](\A s \in Sessions : C25_Hooks(s))
  /\ [][\A s \in Sessions : C25_After(s)]_vars

\* one session has completed a transfer that moved data and called both
\* hooks, another has failed after its started hook
C25_Witness ==
  \E s, u \in Sessions :
    /\ sess[s].pc = "done" /\ Len(sess[s].hooks) = 2
    /\ sess[s].wrote # <<>> \/ sess[s].sentData # <<>>
    /\ sess[u].pc = "done" /\ Len(sess[u].hooks) = 1
    /\ sess[u].result.tag = "err"

\* C26: when the send of the courtesy ERROR packet fails, the failure is
\* ignored in the read handler and in the write handler: a session whose
\* transfer function returned an error ends normally, it does not panic
C26_CourtesyFailureIgnored ==
  [][\A s \in Sessions :
       sess[s].pc = "failed" => sess'[s].pc \in {"failed", "done"}]_vars

\* what a write session does with the path does not depend on the other
\* sessions: the existence check passes whenever the path does not exist at
\* that moment, File::create then succeeds and empties the file whether or
\* not another session has created it since, and no session is rejected with
\* FileExists after its check
C27_Uncoordinated(s) ==
  LET c == sess[s] IN
  /\ (c.pc = "exists" /\ sess'[s] # c /\ ~Exists(c.path)) => sess'[s].pc = "create"
  /\ (c.pc = "create" /\ sess'[s].pc = "recv") => fs'[c.path] = File(<<>>)
  /\ (c.pc \in {"create", "recv"} /\ sess'[s] # c) =>
       sess'[s].result # Err(TftpError("FileExists", <<>>))

\* C27: two concurrent write-request sessions for the same path are not
\* coordinated; there is an interleaving in which both pass the existence
\* check, both create the file and both write their blocks to it, neither
\* being rejected with FileExists (C27_Witness is such a state)
C27_NotCoordinated == [][\A s \in Sessions : C27_Uncoordinated(s)]_vars

C27_Witness ==
  \E s, u \in Sessions :
    /\ s # u
    /\ sess[s].kind = "wrq" /\ sess[u].kind = "wrq"
    /\ sess[s].path = sess[u].path
    /\ sess[s].opened /\ sess[u].opened
    /\ sess[s].wrote # <<>> /\ sess[u].wrote # <<>>
    /\ sess[s].result.tag # "err" /\ sess[u].result.tag # "err"

\* session s has created its file and its transfer function returned an error
FailedAfterCreate(s) ==
  /\ sess[s].kind = "wrq" /\ sess[s].opened
  /\ sess[s].result.tag = "err"

\* no step removes a file, so the file of a failed session stays, and a write
\* request that tests a path on which a session has failed after creating it
\* is rejected with FileExists
C28_Step ==
  /\ \A p \in Paths : fs[p].exists => fs'[p].exists
  /\ \A s, u \in Sessions :
       (FailedAfterCreate(s) /\ sess[u].pc = "exists"
          /\ sess[u].path = sess[s].path /\ sess'[u] # sess[u]) =>
         /\ sess'[u].pc = "failed"
         /\ sess'[u].result = Err(TftpError("FileExists", <<>>))

\* C28: after a receive session has created the file and then failed (its
\* retries are used up, or a write failed) the partly written file stays
\* where it is, and every later write request for the path is rejected with
\* FileExists
C28_PartialFileRemains ==
  /\ [](\A s \in Sessions : FailedAfterCreate(s) => Exists(sess[s].path))
  /\ [][C28_Step]_vars

\* a session has written a block and then failed, and another write request
\* for the path was rejected with FileExists
C28_Witness ==
  \E s, u \in Sessions :
    /\ FailedAfterCreate(s) /\ sess[s].wrote # <<>>
    /\ sess[s].result.err \in {Exceeded, TftpError("Undefined", <<>>)}
    /\ sess[u].kind = "wrq" /\ sess[u].path = sess[s].path /\ ~sess[u].opened
    /\ sess[u].result = Err(TftpError("FileExists", <<>>))

====
